---------------------------- MODULE Spec2Model ----------------------------
(***************************************************************************)
(* cargo-readme: extraction of `//!` doc comments (src/doc.rs, extract),    *)
(* folding of the lines (fold_data), and the title / license / template    *)
(* merge (generate_readme, process_template).                              *)
(*                                                                         *)
(* Text is modelled by TLA+ strings, on which TLC evaluates Len, SubSeq    *)
(* and \o.  A TLA+ string literal cannot hold the grave accent, so the     *)
(* fence character U+0060 is written as the apostrophe ' throughout: the   *)
(* fence marker is "'''".  No source text of the model holds a real        *)
(* apostrophe, so the renaming is one to one.                              *)
(***************************************************************************)
EXTENDS Naturals, Sequences, FiniteSets, TLC

VARIABLES
    pc,               \* position in extract / generate_readme
    source,           \* the lines reader.lines() has yielded so far
    indent_headings,  \* argument of extract / generate_readme
    section,          \* doc.rs:94  let mut section = Code::Doc
    doc_data,         \* the lines the filter_map closure has returned so far
    add_title,        \* argument of generate_readme
    add_license,      \* argument of generate_readme
    template_in,      \* argument `template`: Option<T>, with the text the stream holds
    cargo,            \* what get_crate_info finds on disk
    crate_info,       \* doc.rs:61  let crate_info
    readme,           \* doc.rs:59  let mut readme (process_template's `mut readme`)
    template,         \* doc.rs:147 let mut template (process_template's local)
    template_read,    \* whether get_template has consumed the template stream
    result,           \* the value generate_readme returns
    cli               \* main.rs:75 the --template option, and the file it names on disk

vars == <<pc, source, indent_headings, section, doc_data, add_title, add_license,
          template_in, cargo, crate_info, readme, template, template_read, result,
          cli>>

---------------------------------------------------------------------------
(* Bounds *)

\* lines read from the source when extract is run on its own
MaxLines == 3

---------------------------------------------------------------------------
(* str primitives of the Rust standard library the code calls *)

\* str::starts_with
starts_with(s, p) ==
    Len(s) >= Len(p) /\ SubSeq(s, 1, Len(p)) = p

\* str::contains
contains(s, p) ==
    \E i \in 1..(Len(s) + 1) :
        i + Len(p) - 1 <= Len(s) /\ SubSeq(s, i, i + Len(p) - 1) = p

\* s[n..] for a string of ASCII characters
slice_from(s, n) == SubSeq(s, n + 1, Len(s))

\* char::is_whitespace on the characters the model uses
is_whitespace(c) == c \in {" ", "\t", "\r", "\n"}

RECURSIVE trim_left(_)
trim_left(s) ==
    IF Len(s) > 0 /\ is_whitespace(SubSeq(s, 1, 1))
    THEN trim_left(SubSeq(s, 2, Len(s)))
    ELSE s

RECURSIVE trim_right(_)
trim_right(s) ==
    IF Len(s) > 0 /\ is_whitespace(SubSeq(s, Len(s), Len(s)))
    THEN trim_right(SubSeq(s, 1, Len(s) - 1))
    ELSE s

\* str::trim
trim(s) == trim_left(trim_right(s))

\* str::trim_right_matches: every suffix that matches p is removed, repeatedly
RECURSIVE trim_right_matches(_, _)
trim_right_matches(s, p) ==
    IF Len(p) > 0 /\ Len(s) >= Len(p) /\ SubSeq(s, Len(s) - Len(p) + 1, Len(s)) = p
    THEN trim_right_matches(SubSeq(s, 1, Len(s) - Len(p)), p)
    ELSE s

\* str::replace: every non-overlapping match of `from`, left to right, in one pass
RECURSIVE replace(_, _, _)
replace(s, from, to) ==
    IF Len(s) < Len(from) \/ Len(from) = 0 THEN s
    ELSE IF SubSeq(s, 1, Len(from)) = from
         THEN to \o replace(SubSeq(s, Len(from) + 1, Len(s)), from, to)
         ELSE SubSeq(s, 1, 1) \o replace(SubSeq(s, 2, Len(s)), from, to)

---------------------------------------------------------------------------
(* extract: doc.rs:86-135 *)

\* enum Code
Code == {"Rust", "Other", "Doc"}

\* the class \w of the regex crate, on ASCII
WordChars ==
    {"a", "b", "c", "d", "e", "f", "g", "h", "i", "j", "k", "l", "m",
     "n", "o", "p", "q", "r", "s", "t", "u", "v", "w", "x", "y", "z",
     "A", "B", "C", "D", "E", "F", "G", "H", "I", "J", "K", "L", "M",
     "N", "O", "P", "Q", "R", "S", "T", "U", "V", "W", "X", "Y", "Z",
     "0", "1", "2", "3", "4", "5", "6", "7", "8", "9", "_"}

\* Mutant of re_code_rust: the modifier alternation is left out
re_code_rust_bare(line) == line = "//! '''"

\* Regex ^//! ```(no_run|ignore|should_panic)?$ : anchored at both ends
re_code_rust(line) ==
    \E m \in {"", "no_run", "ignore", "should_panic"} : line = "//! '''" \o m

\* Regex //! ```\w+ with is_match: a search, not anchored at either end
re_code_other(line) ==
    \E i \in 1..Len(line) :
        /\ i + 7 <= Len(line)
        /\ SubSeq(line, i, i + 6) = "//! '''"
        /\ SubSeq(line, i + 7, i + 7) \in WordChars

\* Mutant of fence_step: the patterns are tested whatever the section is
fence_step_anyState(sec, line) ==
    IF re_code_rust(line)
    THEN [section |-> "Rust", returned |-> <<"'''rust">>]
    ELSE IF re_code_other(line)
    THEN [section |-> "Other", returned |-> <<>>]
    ELSE [section |-> sec, returned |-> <<>>]

\* Mutant of fence_step: the other-language pattern is tested before the primary one
fence_step_otherFirst(sec, line) ==
    IF sec = "Doc" /\ re_code_other(line)
    THEN [section |-> "Other", returned |-> <<>>]
    ELSE IF sec = "Doc" /\ re_code_rust(line)
    THEN [section |-> "Rust", returned |-> <<"'''rust">>]
    ELSE IF sec # "Doc" /\ line = "//! '''"
    THEN [section |-> "Doc", returned |-> <<"'''">>]
    ELSE [section |-> sec, returned |-> <<>>]

\* The section after the fence tests of doc.rs:101-111, and whether one of them returned
fence_step(sec, line) ==
    IF sec = "Doc" /\ re_code_rust(line)
    THEN [section |-> "Rust", returned |-> <<"'''rust">>]
    ELSE IF sec = "Doc" /\ re_code_other(line)
    THEN [section |-> "Other", returned |-> <<>>]
    ELSE IF sec # "Doc" /\ line = "//! '''"
    THEN [section |-> "Doc", returned |-> <<"'''">>]
    ELSE [section |-> sec, returned |-> <<>>]

\* Mutant of strip_prefix: the test for a blank line is left out
strip_prefix_noBlank(sec, line, indent) ==
    LET stripped == slice_from(line, 4)
    IN  IF indent /\ sec = "Doc" /\ starts_with(stripped, "#")
        THEN "#" \o stripped
        ELSE stripped

\* doc.rs:118-129: the prefix is removed and a heading outside code is indented
strip_prefix(sec, line, indent) ==
    IF trim(line) = "//!" THEN ""
    ELSE LET stripped == slice_from(line, 4)
         IN  IF indent /\ sec = "Doc" /\ starts_with(stripped, "#")
             THEN "#" \o stripped
             ELSE stripped

\* Mutant of filter_map_closure: the hidden-line test is left out
filter_map_closure_keepsHidden(sec, line, indent) ==
    IF ~starts_with(line, "//!") THEN [section |-> sec, out |-> <<>>]
    ELSE LET f == fence_step(sec, line)
         IN  IF f.returned # <<>> THEN [section |-> f.section, out |-> f.returned]
             ELSE [section |-> f.section,
                   out |-> <<strip_prefix(f.section, line, indent)>>]

\* Mutant of filter_map_closure: a line without the prefix ends the code block
filter_map_closure_resetsSection(sec, line, indent) ==
    IF ~starts_with(line, "//!") THEN [section |-> "Doc", out |-> <<>>]
    ELSE LET f == fence_step(sec, line)
         IN  IF f.returned # <<>> THEN [section |-> f.section, out |-> f.returned]
             ELSE IF f.section = "Rust" /\ starts_with(line, "//! # ")
                  THEN [section |-> f.section, out |-> <<>>]
                  ELSE [section |-> f.section,
                        out |-> <<strip_prefix(f.section, line, indent)>>]

\* The closure given to filter_map (doc.rs:97-133): the new section and the
\* line it returns (<<>> for None)
filter_map_closure(sec, line, indent) ==
    IF ~starts_with(line, "//!") THEN [section |-> sec, out |-> <<>>]
    ELSE LET f == fence_step(sec, line)
         IN  IF f.returned # <<>> THEN [section |-> f.section, out |-> f.returned]
             ELSE IF f.section = "Rust" /\ starts_with(line, "//! # ")
                  THEN [section |-> f.section, out |-> <<>>]
                  ELSE [section |-> f.section,
                        out |-> <<strip_prefix(f.section, line, indent)>>]

\* extract as a function of the whole source: the closure folded over the lines.
\* Each entry records the section the line was read in, the line, and what it gave.
RECURSIVE extract_run(_, _, _)
extract_run(sec, lines, indent) ==
    IF lines = <<>> THEN <<>>
    ELSE LET r == filter_map_closure(sec, Head(lines), indent)
         IN  <<[before |-> sec, line |-> Head(lines), out |-> r.out]>>
             \o extract_run(r.section, Tail(lines), indent)

\* The value of `section` once the closure has run on all the lines
RECURSIVE section_after(_, _, _)
section_after(sec, lines, indent) ==
    IF lines = <<>> THEN sec
    ELSE section_after(filter_map_closure(sec, Head(lines), indent).section,
                       Tail(lines), indent)

RECURSIVE collect(_)
collect(run) ==
    IF run = <<>> THEN <<>> ELSE Head(run).out \o collect(Tail(run))

extract(lines, indent) == collect(extract_run("Doc", lines, indent))

---------------------------------------------------------------------------
(* fold_data, the decorators and process_template: doc.rs:140-237 *)

RECURSIVE fold_from(_, _)
fold_from(acc, rest) ==
    IF rest = <<>> THEN acc
    ELSE fold_from(acc \o "\n" \o Head(rest), Tail(rest))

\* Mutant of fold_data: lines that are empty are left out of the fold
fold_data_skipsEmpty(data) ==
    LET kept == SelectSeq(data, LAMBDA l : l # "")
    IN  IF Len(kept) < 1 THEN ""
        ELSE IF Len(kept) < 2 THEN kept[1]
        ELSE fold_from(kept[1], Tail(kept))

\* fold_data (doc.rs:205-213)
fold_data(data) ==
    IF Len(data) < 1 THEN ""
    ELSE IF Len(data) < 2 THEN data[1]
    ELSE fold_from(data[1], Tail(data))

\* prepend_title (doc.rs:225-230)
prepend_title(text, crate_name) == ("# " \o crate_name \o "\n\n") \o text

\* append_license (doc.rs:232-237)
append_license(text, license) == text \o "\n\nLicense: " \o license

\* The error strings of doc.rs:63, 160, 166 and 218 (the grave accent written ')
ErrNoLicense == "There is no license in Cargo.toml"
ErrLicensePlaceholder ==
    "'{{license}}' found in template but there is no license in Cargo.toml"
ErrMissingReadme == "Missing '{{readme}}' in template"
ErrTemplateRead == "Error: read"
ErrNotInProject == "Not in a rust project"

Ok(v) == [kind |-> "Ok", val |-> v]
Err(e) == [kind |-> "Err", val |-> e]
\* Option::unwrap on None
Panic == [kind |-> "Panic", val |-> "called Option::unwrap() on a None value"]

\* Mutant of license_missing: the early check of generate_readme is left out
license_missing_unchecked(want_license, info) == FALSE

\* doc.rs:62: add_license && crate_info.license.is_none()
license_missing(want_license, info) == want_license /\ ~info.license.some

\* Mutant of trim_template: only one trailing newline is removed
trim_template_once(text) ==
    IF Len(text) > 0 /\ SubSeq(text, Len(text), Len(text)) = "\n"
    THEN SubSeq(text, 1, Len(text) - 1)
    ELSE text

\* doc.rs:148: template.trim_right_matches("\n")
trim_template(text) == trim_right_matches(text, "\n")

\* Mutant of title_step: the title is prepended whenever add_title is set, and
\* the placeholder is substituted as well
title_step_both(tpl, text, crate_name, want_title) ==
    [template |-> replace(tpl, "{{crate}}", crate_name),
     readme   |-> IF want_title THEN prepend_title(text, crate_name) ELSE text]

\* doc.rs:150-154
title_step(tpl, text, crate_name, want_title) ==
    IF want_title /\ ~contains(tpl, "{{crate}}")
    THEN [template |-> tpl, readme |-> prepend_title(text, crate_name)]
    ELSE [template |-> replace(tpl, "{{crate}}", crate_name), readme |-> text]

\* Mutant of license_step: the placeholder is substituted only on request
license_step_onRequest(tpl, text, license, want_license) ==
    IF want_license /\ ~contains(tpl, "{{license}}")
    THEN IF license.some
         THEN [kind |-> "Ok", template |-> tpl,
               readme |-> append_license(text, license.val)]
         ELSE [kind |-> "Panic", template |-> tpl, readme |-> text]
    ELSE IF want_license /\ contains(tpl, "{{license}}")
    THEN IF ~license.some
         THEN [kind |-> "Err", template |-> tpl, readme |-> text]
         ELSE [kind |-> "Ok", template |-> replace(tpl, "{{license}}", license.val),
               readme |-> text]
    ELSE [kind |-> "Ok", template |-> tpl, readme |-> text]

\* Mutant of license_step: the is_none test before the substitution is left out
license_step_unwrapsAbsent(tpl, text, license, want_license) ==
    IF want_license /\ ~contains(tpl, "{{license}}")
    THEN IF license.some
         THEN [kind |-> "Ok", template |-> tpl,
               readme |-> append_license(text, license.val)]
         ELSE [kind |-> "Panic", template |-> tpl, readme |-> text]
    ELSE IF contains(tpl, "{{license}}")
    THEN IF ~license.some
         THEN [kind |-> "Panic", template |-> tpl, readme |-> text]
         ELSE [kind |-> "Ok", template |-> replace(tpl, "{{license}}", license.val),
               readme |-> text]
    ELSE [kind |-> "Ok", template |-> tpl, readme |-> text]

\* doc.rs:156-163; "Panic" is the unwrap of an absent license at line 157
license_step(tpl, text, license, want_license) ==
    IF want_license /\ ~contains(tpl, "{{license}}")
    THEN IF license.some
         THEN [kind |-> "Ok", template |-> tpl,
               readme |-> append_license(text, license.val)]
         ELSE [kind |-> "Panic", template |-> tpl, readme |-> text]
    ELSE IF contains(tpl, "{{license}}")
    THEN IF ~license.some
         THEN [kind |-> "Err", template |-> tpl, readme |-> text]
         ELSE [kind |-> "Ok", template |-> replace(tpl, "{{license}}", license.val),
               readme |-> text]
    ELSE [kind |-> "Ok", template |-> tpl, readme |-> text]

\* Mutant of body_step: the test for the body placeholder is left out
body_step_unchecked(tpl, text) == Ok(replace(tpl, "{{readme}}", text))

\* doc.rs:165-170
body_step(tpl, text) ==
    IF ~contains(tpl, "{{readme}}") THEN Err(ErrMissingReadme)
    ELSE Ok(replace(tpl, "{{readme}}", text))

\* Mutant of substitute: the crate name is substituted once more after the body
substitute_crateLast(t0, body, info, want_title, want_license) ==
    LET a == title_step(t0, body, info.name, want_title)
        b == license_step(a.template, a.readme, info.license, want_license)
        r == body_step(b.template, b.readme)
    IN  IF b.kind = "Panic"
        THEN [result |-> Panic, template |-> b.template, readme |-> b.readme]
        ELSE IF b.kind = "Err"
        THEN [result |-> Err(ErrLicensePlaceholder),
              template |-> b.template, readme |-> b.readme]
        ELSE [result |-> IF r.kind = "Ok"
                         THEN Ok(replace(r.val, "{{crate}}", info.name))
                         ELSE r,
              template |-> b.template, readme |-> b.readme]

\* doc.rs:150-170 on the trimmed template text: the result, with the locals
\* `template` and `readme` as they are on return
substitute(t0, body, info, want_title, want_license) ==
    LET a == title_step(t0, body, info.name, want_title)
        b == license_step(a.template, a.readme, info.license, want_license)
    IN  IF b.kind = "Panic"
        THEN [result |-> Panic, template |-> b.template, readme |-> b.readme]
        ELSE IF b.kind = "Err"
        THEN [result |-> Err(ErrLicensePlaceholder),
              template |-> b.template, readme |-> b.readme]
        ELSE [result |-> body_step(b.template, b.readme),
              template |-> b.template, readme |-> b.readme]

\* Mutant of process_template: the body is substituted as extracted, before the
\* decorators have been applied to it
process_template_undecorated(text, body, info, want_title, want_license) ==
    LET p == substitute(trim_template(text), body, info, want_title, want_license)
    IN  IF p.result.kind = "Ok"
        THEN [p EXCEPT !.result = body_step(p.template, body)]
        ELSE p

\* process_template after get_template has returned the text (doc.rs:148-170)
process_template(text, body, info, want_title, want_license) ==
    substitute(trim_template(text), body, info, want_title, want_license)

\* generate_readme without a template (doc.rs:68-78)
decorate(body, info, want_title, want_license) ==
    LET a == IF want_title THEN prepend_title(body, info.name) ELSE body
    IN  IF want_license
        THEN IF info.license.some
             THEN [result |-> Ok(append_license(a, info.license.val)),
                   readme |-> append_license(a, info.license.val)]
             ELSE [result |-> Panic, readme |-> a]
        ELSE [result |-> Ok(a), readme |-> a]

---------------------------------------------------------------------------
(* Inputs *)

\* lines read from the source when generate_readme is run
MaxGenLines == 2

\* Source lines the reader may yield to generate_readme
GenLinePool == {"//! a", "//! # h", "fn f", "//! {{crate}}{{license}}{{readme}}"}

\* What the template argument may be: absent, unreadable, or a text
TemplateTexts ==
    {"", "x", "{{readme}}", "{{readme}}\n", "{{readme}}\n\n", "p {{readme}} s",
     "{{readme}} {{readme}}\n", "# {{crate}}\n{{readme}}\n", "{{crate}}",
     "{{license}}", "{{readme}}{{license}}", "{{{{crate}}}}",
     "{{crate}}{{crate}}{{license}} {{license}}{{readme}}"}

TemplatePool ==
    {[kind |-> "None", text |-> ""], [kind |-> "Unreadable", text |-> ""]}
        \cup {[kind |-> "Text", text |-> t] : t \in TemplateTexts}

\* What get_crate_info may find: no project, or a name and an optional license
CargoPool ==
    {[found |-> FALSE, name |-> "", license |-> [some |-> FALSE, val |-> ""]]}
        \cup {[found |-> TRUE, name |-> n, license |-> l] :
                 n \in {"foo", "readme"},
                 l \in {[some |-> FALSE, val |-> ""], [some |-> TRUE, val |-> "MIT"]}}
        \cup {[found |-> TRUE, name |-> "foo",
               license |-> [some |-> TRUE, val |-> "{{crate}}"]]}

\* Source lines the reader may yield
LinePool ==
    {"//! '''", "//! '''no_run", "//! '''ignore", "//! '''should_panic",
     "//! '''C", "//! ''' C", "//! # h", "//! a", "//!", "//!  ",
     "fn f", "//! #//! '''C"}

NoInfo == [name |-> "", license |-> [some |-> FALSE, val |-> ""]]
NoResult == [kind |-> "None", val |-> ""]
NoTemplate == [kind |-> "None", text |-> ""]
NoCargo == [found |-> FALSE, name |-> "", license |-> [some |-> FALSE, val |-> ""]]
NoCli == [template_given |-> FALSE, file |-> [kind |-> "Missing", text |-> ""]]

---------------------------------------------------------------------------
(* extract run on its own, as the unit test calls it *)

Init ==
    /\ pc = "extract"
    /\ source = <<>>
    /\ indent_headings \in BOOLEAN
    /\ section = "Doc"
    /\ doc_data = <<>>
    /\ add_title = FALSE
    /\ add_license = FALSE
    /\ template_in = NoTemplate
    /\ cargo = NoCargo
    /\ crate_info = NoInfo
    /\ readme = ""
    /\ template = ""
    /\ template_read = FALSE
    /\ result = NoResult
    /\ cli = NoCli

\* reader.lines() yields one more line and the closure runs on it
ReadLine(pool, max) ==
    /\ pc = "extract"
    /\ Len(source) < max
    /\ \E line \in pool :
          LET r == filter_map_closure(section, line, indent_headings)
          IN  /\ source' = Append(source, line)
              /\ section' = r.section
              /\ doc_data' = doc_data \o r.out
    /\ UNCHANGED <<cli, pc, indent_headings, add_title, add_license, template_in, cargo,
                   crate_info, readme, template, template_read, result>>

\* reader.lines() is exhausted: collect() returns the Vec
EndOfInput ==
    /\ pc = "extract"
    /\ pc' = "collected"
    /\ UNCHANGED <<cli, source, indent_headings, section, doc_data, add_title, add_license,
                   template_in, cargo, crate_info, readme, template, template_read,
                   result>>

Next ==
    \/ ReadLine(LinePool, MaxLines)
    \/ EndOfInput

Spec == Init /\ [][Next]_vars

---------------------------------------------------------------------------
(* generate_readme: doc.rs:51-80 *)

InitGen ==
    /\ pc = "extract"
    /\ source = <<>>
    /\ indent_headings \in BOOLEAN
    /\ section = "Doc"
    /\ doc_data = <<>>
    /\ add_title \in BOOLEAN
    /\ add_license \in BOOLEAN
    /\ template_in \in TemplatePool
    /\ cargo \in CargoPool
    /\ crate_info = NoInfo
    /\ readme = ""
    /\ template = ""
    /\ template_read = FALSE
    /\ result = NoResult
    /\ cli = NoCli

\* doc.rs:59: let mut readme = fold_data(doc_data)
FoldData ==
    /\ pc = "collected"
    /\ readme' = fold_data(doc_data)
    /\ pc' = "crate_info"
    /\ UNCHANGED <<cli, source, indent_headings, section, doc_data, add_title, add_license,
                   template_in, cargo, crate_info, template, template_read, result>>

\* doc.rs:61-64: try!(get_crate_info()) and the early license check
GetCrateInfo ==
    /\ pc = "crate_info"
    /\ IF ~cargo.found
       THEN /\ result' = Err(ErrNotInProject)
            /\ pc' = "done"
            /\ UNCHANGED crate_info
       ELSE LET info == [name |-> cargo.name, license |-> cargo.license]
            IN  /\ crate_info' = info
                /\ IF license_missing(add_license, info)
                   THEN result' = Err(ErrNoLicense) /\ pc' = "done"
                   ELSE result' = result /\ pc' = "render"
    /\ UNCHANGED <<cli, source, indent_headings, section, doc_data, add_title, add_license,
                   template_in, cargo, readme, template, template_read>>

\* doc.rs:68-78: no template, the decorators are applied to the body
RenderPlain ==
    /\ pc = "render"
    /\ template_in.kind = "None"
    /\ LET d == decorate(readme, crate_info, add_title, add_license)
       IN  readme' = d.readme /\ result' = d.result
    /\ pc' = "done"
    /\ UNCHANGED <<cli, source, indent_headings, section, doc_data, add_title, add_license,
                   template_in, cargo, crate_info, template, template_read>>

\* doc.rs:67: process_template, from get_template (doc.rs:147) to its return
RenderTemplate ==
    /\ pc = "render"
    /\ template_in.kind # "None"
    /\ template_read' = TRUE
    /\ IF template_in.kind = "Unreadable"
       THEN /\ result' = Err(ErrTemplateRead)
            /\ UNCHANGED <<readme, template>>
       ELSE LET p == process_template(template_in.text, readme, crate_info,
                                      add_title, add_license)
            IN  /\ result' = p.result
                /\ readme' = p.readme
                /\ template' = p.template
    /\ pc' = "done"
    /\ UNCHANGED <<cli, source, indent_headings, section, doc_data, add_title, add_license,
                   template_in, cargo, crate_info>>

NextGen ==
    \/ ReadLine(GenLinePool, MaxGenLines)
    \/ EndOfInput
    \/ FoldData
    \/ GetCrateInfo
    \/ RenderPlain
    \/ RenderTemplate

SpecGen == InitGen /\ [][NextGen]_vars

---------------------------------------------------------------------------
(* execute, from the opening of the template: main.rs:103-116 *)

\* main.rs:23
DEFAULT_TEMPLATE == "README.tpl"

\* The template file on disk: absent, unreadable, or holding a text
TemplateFiles ==
    {[kind |-> "Missing", text |-> ""], [kind |-> "Unreadable", text |-> ""]}
        \cup {[kind |-> "Text", text |-> t] : t \in TemplateTexts}

\* Option::expect on None at main.rs:105-107
ExpectFailed == [kind |-> "Panic", val |-> "Could not open template file"]

\* main.rs:103: template.or(Some(DEFAULT_TEMPLATE)), the path that is opened
template_path(given) == IF given THEN "my.tpl" ELSE DEFAULT_TEMPLATE

InitMain ==
    /\ pc = "open_template"
    /\ source = <<>>
    /\ indent_headings \in BOOLEAN
    /\ section = "Doc"
    /\ doc_data = <<>>
    /\ add_title \in BOOLEAN
    /\ add_license \in BOOLEAN
    /\ template_in = NoTemplate
    /\ cargo \in CargoPool
    /\ crate_info = NoInfo
    /\ readme = ""
    /\ template = ""
    /\ template_read = FALSE
    /\ result = NoResult
    /\ cli \in [template_given : BOOLEAN, file : TemplateFiles]

\* main.rs:103-110: the option or the default name is joined to the current
\* directory and opened; File::open(..).ok().expect(..) panics when it fails
OpenTemplate ==
    /\ pc = "open_template"
    /\ Len(template_path(cli.template_given)) > 0
    /\ IF cli.file.kind = "Missing"
       THEN /\ result' = ExpectFailed
            /\ pc' = "done"
            /\ UNCHANGED template_in
       ELSE /\ template_in' = [kind |-> cli.file.kind, text |-> cli.file.text]
            /\ pc' = "extract"
            /\ UNCHANGED result
    /\ UNCHANGED <<cli, source, indent_headings, section, doc_data, add_title,
                   add_license, cargo, crate_info, readme, template, template_read>>

\* main.rs:112-116 runs the extraction and the merge on the opened template;
\* the template handed over is never None
NextMain ==
    \/ OpenTemplate
    \/ ReadLine(GenLinePool, MaxGenLines)
    \/ EndOfInput
    \/ FoldData
    \/ GetCrateInfo
    \/ RenderTemplate

SpecMain == InitMain /\ [][NextMain]_vars

---------------------------------------------------------------------------
(* extract followed by fold_data, on the full pool of lines: doc.rs:58-59 *)

NextFold ==
    \/ ReadLine(LinePool, MaxLines)
    \/ EndOfInput
    \/ FoldData

SpecFold == Init /\ [][NextFold]_vars

---------------------------------------------------------------------------
(* Properties of extract *)

\* The step reads one more source line
LineRead == Len(source') = Len(source) + 1

\* The line that step read
NewLine == source'[Len(source')]

\* The four accepted openers of a primary code block
PrimaryOpeners ==
    {"//! '''", "//! '''no_run", "//! '''ignore", "//! '''should_panic"}

\* The openers that carry a modifier
ModifierOpeners == PrimaryOpeners \ {"//! '''"}

\* The state machine computes the function extract
ExtractIsFold == doc_data = extract(source, indent_headings)

\* C1: each of the four accepted openers read in Doc emits exactly "```rust" and
\* opens a primary block, whichever modifier it carries; a line that is exactly
\* the bare fence read in that block emits exactly "```".
C1_FenceRoundTrip ==
    [][LineRead =>
         /\ (section = "Doc" /\ NewLine \in PrimaryOpeners
               => doc_data' = Append(doc_data, "'''rust") /\ section' = "Rust")
         /\ (section = "Rust" /\ NewLine = "//! '''"
               => doc_data' = Append(doc_data, "'''") /\ section' = "Doc")]_vars

\* C1 witness: a block opened with a modifier and closed normally has been extracted
C1_Witness ==
    /\ pc = "collected"
    /\ source = <<"//! '''should_panic", "//! a", "//! '''">>
    /\ doc_data = <<"'''rust", "a", "'''">>

\* A doc line that is the prefix followed only by whitespace
IsBlankDocLine(line) ==
    /\ starts_with(line, "//!")
    /\ \A i \in 4..Len(line) : SubSeq(line, i, i) \in {" ", "\t", "\r", "\n"}

C3_HeadingIndent ==
    LET t == extract_run("Doc", source, TRUE)
        f == extract_run("Doc", source, FALSE)
    IN  /\ Len(extract(source, TRUE)) = Len(extract(source, FALSE))
        /\ \A i \in 1..Len(source) :
              /\ t[i].before = f[i].before
              /\ Len(t[i].out) = Len(f[i].out)
              /\ t[i].out # <<>> =>
                    IF t[i].before = "Doc" /\ starts_with(source[i], "//!")
                       /\ starts_with(slice_from(source[i], 4), "#")
                    THEN t[i].out[1] = "#" \o f[i].out[1]
                    ELSE t[i].out[1] = f[i].out[1]

\* C4: a primary opener with a modifier read while a primary block is still open
\* ends that block and starts a new one ("```" then "```rust"), and the raw
\* annotated fence never appears in the output.
C4_NestedOpenerRestarts ==
    [][LineRead /\ section = "Rust" /\ NewLine \in ModifierOpeners
         => /\ doc_data' = doc_data \o <<"'''", "'''rust">>
            /\ section' = "Rust"
            /\ \A i \in 1..Len(doc_data') :
                  doc_data'[i] \notin {"'''no_run", "'''ignore", "'''should_panic"}]_vars

\* The lines that begin with the doc-comment prefix, in order
DocLinesOf(lines) ==
    SelectSeq(lines, LAMBDA l : Len(l) >= 3 /\ SubSeq(l, 1, 3) = "//!")

\* C12: lines without the prefix `//!` give no output and leave the fence state
\* alone wherever they stand: extract gives what it gives on the source with
\* those lines removed, and a source with no prefixed line gives no line at
\* all, which folds to the empty string.
C12_NonDocLinesDropped ==
    LET kept == DocLinesOf(source)
    IN  /\ doc_data = extract(kept, indent_headings)
        /\ section = section_after("Doc", kept, indent_headings)
        /\ kept = <<>> =>
              doc_data = <<>> /\ section = "Doc" /\ fold_data(doc_data) = ""

\* C12 witness: a line without the prefix stood between the open and the close
\* of a code block and changed nothing
C12_Witness ==
    /\ source = <<"//! '''", "fn f", "//! '''">>
    /\ doc_data = <<"'''rust", "'''">>
    /\ section = "Doc"

---------------------------------------------------------------------------
(* Properties of generate_readme and the template merger *)

\* process_template has read a template text and returned
MergerRan == pc = "done" /\ template_read /\ template_in.kind = "Text"

\* The body handed to the decorators or the merger
Body == fold_data(doc_data)

\* The text less all of its trailing newline characters, without recursion
StripTrailingNewlines(text) ==
    LET keep == {n \in 0..Len(text) :
                    \A i \in (n + 1)..Len(text) : SubSeq(text, i, i) = "\n"}
        n == CHOOSE m \in keep : \A k \in keep : m <= k
    IN  SubSeq(text, 1, n)

\* The text less one trailing newline character, when it has one
StripOneNewline(text) ==
    IF Len(text) > 0 /\ SubSeq(text, Len(text), Len(text)) = "\n"
    THEN SubSeq(text, 1, Len(text) - 1)
    ELSE text

\* C5: with add_license set and no license in the crate metadata, generate_readme
\* returns the "no license" error whatever the template is, and it does so
\* before the template is read or any merge rule has run.
C5_NoLicenseFirst ==
    pc = "done" /\ add_license /\ cargo.found /\ ~cargo.license.some
        => /\ result = Err(ErrNoLicense)
           /\ ~template_read
           /\ template = ""
           /\ readme = Body

\* C5 witness: the early error was returned although the template holds the
\* license placeholder and no body placeholder
C5_Witness ==
    /\ pc = "done"
    /\ add_license /\ cargo.found /\ ~cargo.license.some
    /\ template_in = [kind |-> "Text", text |-> "{{license}}"]
    /\ result = Err(ErrNoLicense)

\* C6 as stated: every template without `{{readme}}` gives the "missing body
\* placeholder" error, for every body, crate info and flags.
C6_MissingBodyAsStated ==
    MergerRan /\ ~contains(template_in.text, "{{readme}}")
        => result = Err(ErrMissingReadme)

\* C6 amended: when the template text, after the crate-name and license steps of
\* the merger, does not contain `{{readme}}`, no output is produced: the result
\* is the "license placeholder without license" error when that text holds
\* `{{license}}` and no license is configured, and the "missing body
\* placeholder" error in every other case.
C6_MissingBody ==
    MergerRan /\ ~contains(template, "{{readme}}")
        => result = IF contains(template, "{{license}}") /\ ~crate_info.license.some
                    THEN Err(ErrLicensePlaceholder)
                    ELSE Err(ErrMissingReadme)

\* C6 witness: a template with no placeholder at all was refused
C6_Witness ==
    /\ MergerRan
    /\ template_in.text = "x"
    /\ result = Err(ErrMissingReadme)

\* C7: when the template holds `{{license}}`, whatever add_license is, the merger
\* fails with the license-placeholder error if no license is configured and
\* otherwise replaces every `{{license}}` by the license and appends no footer;
\* a `License:` footer is appended only when add_license is set and the
\* template holds no `{{license}}`.
C7_LicensePlaceholder ==
    MergerRan =>
        LET a == title_step(trim_template(template_in.text), Body,
                            crate_info.name, add_title)
            lic == crate_info.license
        IN  /\ contains(template_in.text, "{{license}}") =>
                  IF ~lic.some
                  THEN result = Err(ErrLicensePlaceholder)
                  ELSE /\ template = replace(a.template, "{{license}}", lic.val)
                       /\ ~contains(template, "{{license}}")
                       /\ readme = a.readme
            /\ readme # a.readme =>
                  /\ add_license
                  /\ ~contains(template_in.text, "{{license}}")
                  /\ readme = a.readme \o "\n\nLicense: " \o lic.val

\* C7 witness: the placeholder was substituted although add_license is not set
C7_Witness ==
    /\ MergerRan
    /\ ~add_license /\ ~add_title
    /\ template_in.text = "{{readme}}{{license}}"
    /\ crate_info.license.some
    /\ result = Ok(Body \o crate_info.license.val)

\* C8 as stated: exactly one trailing newline is removed from the template text
\* before substitution, so a template ending in k >= 1 newlines leaves k-1 of them.
C8_TrimOneAsStated ==
    MergerRan =>
        LET p == substitute(StripOneNewline(template_in.text), Body, crate_info,
                            add_title, add_license)
        IN  result = p.result /\ template = p.template

\* C8 amended: every trailing newline character is removed from the template
\* text before substitution, so a template ending in k >= 0 newlines leaves none
\* of them in the merged output.
C8_TrimAllNewlines ==
    MergerRan =>
        LET p == substitute(StripTrailingNewlines(template_in.text), Body,
                            crate_info, add_title, add_license)
        IN  /\ result = p.result /\ template = p.template
            /\ (template_in.text \in {"{{readme}}", "{{readme}}\n", "{{readme}}\n\n"}
                  /\ ~add_title /\ ~add_license) => result = Ok(Body)

\* C8 witness: a template ending in two newlines was merged and neither is left
C8_Witness ==
    /\ MergerRan
    /\ ~add_title /\ ~add_license
    /\ template_in.text = "{{readme}}\n\n"
    /\ Body = "a"
    /\ result = Ok("a")

\* C9: with add_title set and no `{{crate}}` in the template the body becomes
\* `# <name>`, a blank line and the body, and the template is left alone; in
\* every other case each `{{crate}}` is replaced by the name and the body gets
\* no title. So the name is never injected both ways, and with add_title unset
\* and no `{{crate}}` the output does not depend on the name.
C9_TitleRule ==
    MergerRan =>
        LET t0 == trim_template(template_in.text)
            name == crate_info.name
            titled == add_title /\ ~contains(t0, "{{crate}}")
            t1 == IF titled THEN t0 ELSE replace(t0, "{{crate}}", name)
            r1 == IF titled THEN "# " \o name \o "\n\n" \o Body ELSE Body
            b == license_step(t1, r1, crate_info.license, add_license)
            other == [crate_info EXCEPT !.name = "zz"]
        IN  /\ template = b.template /\ readme = b.readme
            /\ b.kind = "Ok" => result = body_step(b.template, b.readme)
            /\ (~add_title /\ ~contains(t0, "{{crate}}")) =>
                  result = process_template(template_in.text, Body, other,
                                            add_title, add_license).result

\* C9 witness: the title was prepended to the body because the template has no
\* `{{crate}}`
C9_Witness ==
    /\ MergerRan
    /\ add_title /\ ~add_license
    /\ template_in.text = "p {{readme}} s"
    /\ crate_info.name = "foo"
    /\ result = Ok("p # foo\n\n" \o Body \o " s")

\* The inputs C10 is about
C10_Case ==
    /\ MergerRan
    /\ contains(template_in.text, "{{readme}}")
    /\ ~contains(template_in.text, "{{crate}}")
    /\ ~contains(template_in.text, "{{license}}")
    /\ add_title /\ add_license /\ crate_info.license.some

\* The body with the title before it and the license footer after it
Decorated ==
    "# " \o crate_info.name \o "\n\n" \o Body \o "\n\nLicense: " \o crate_info.license.val

\* C10 as stated: the merged output is the template with every `{{readme}}`
\* replaced by the decorated body and all other template text unchanged; for
\* the template `{{readme}}` it is what generate_readme returns without a template.
C10_DecorateThenSubstituteAsStated ==
    C10_Case =>
        /\ result = Ok(replace(template_in.text, "{{readme}}", Decorated))
        /\ template_in.text = "{{readme}}" =>
              result = decorate(Body, crate_info, add_title, add_license).result

\* C10 amended: the merged output is the template less its trailing newline
\* characters, with every `{{readme}}` replaced by the decorated body and all
\* other text unchanged; for the template `{{readme}}` it is what
\* generate_readme returns without a template and the same flags.
C10_DecorateThenSubstitute ==
    C10_Case =>
        /\ result = Ok(replace(StripTrailingNewlines(template_in.text),
                               "{{readme}}", Decorated))
        /\ template_in.text = "{{readme}}" =>
              result = decorate(Body, crate_info, add_title, add_license).result

\* C10 witness: both decorators were applied to the body and the result merged
\* into a template with text around the placeholder
C10_Witness ==
    /\ C10_Case
    /\ template_in.text = "p {{readme}} s"
    /\ crate_info.name = "foo"
    /\ Body = "a"
    /\ result = Ok("p # foo\n\na\n\nLicense: MIT s")

---------------------------------------------------------------------------
(* Properties of fold_data *)

\* The lines joined by single newlines, built from the last line backwards
RECURSIVE JoinLines(_)
JoinLines(lines) ==
    IF lines = <<>> THEN ""
    ELSE IF Len(lines) = 1 THEN lines[1]
    ELSE lines[1] \o "\n" \o JoinLines(Tail(lines))

\* The number of characters of s equal to c
CountChar(s, c) == Cardinality({i \in 1..Len(s) : SubSeq(s, i, i) = c})

\* C11: fold_data is strict newline joining: no line gives "", one line gives
\* that line, n >= 2 lines give the lines in order with exactly n-1 newlines
\* between them, none added before or after, and empty lines kept as empty
\* segments.
C11_FoldIsJoin ==
    pc = "crate_info" =>
        /\ readme = JoinLines(doc_data)
        /\ doc_data = <<>> => readme = ""
        /\ Len(doc_data) = 1 => readme = doc_data[1]
        /\ Len(doc_data) >= 1 => CountChar(readme, "\n") = Len(doc_data) - 1
        /\ doc_data = <<"a", "", "a">> => readme = "a\n\na"

\* C11 witness: three lines, the middle one empty, were folded
C11_Witness ==
    /\ pc = "crate_info"
    /\ doc_data = <<"a", "", "a">>
    /\ readme = "a\n\na"

---------------------------------------------------------------------------
(* Properties of execute *)

\* C13: with no template option and no default template file README.tpl the
\* run does not fail: the processed docstring is the output, with no template.
C13_DefaultTemplateOptional ==
    (pc # "open_template" /\ ~cli.template_given /\ cli.file.kind = "Missing")
        => /\ result.kind # "Panic"
           /\ template_in.kind = "None"
           /\ pc = "done" => result.kind = "Ok"

---------------------------------------------------------------------------
(* Properties of the section state machine of extract *)

\* A doc line that the other-language pattern matches and the primary one does not
OtherOpener(line) ==
    starts_with(line, "//!") /\ re_code_other(line) /\ line \notin PrimaryOpeners

C15_PatternsDisjointAsStated ==
    [][LineRead /\ section = "Doc" /\ starts_with(NewLine, "//!")
         => ~(re_code_rust(NewLine) /\ re_code_other(NewLine))]_vars

\* C15 amended: the only lines that match two of the patterns applicable in
\* their state are the three annotated primary openers read in Doc, which match
\* both open patterns and open a primary block because that pattern is tested
\* first. The bare fence read in Doc matches the primary pattern alone, and
\* inside a block the close test is the only one applied.
C15_OrderDecides ==
    [][LineRead /\ starts_with(NewLine, "//!") =>
         /\ section = "Doc" =>
              /\ re_code_rust(NewLine) /\ re_code_other(NewLine)
                    <=> NewLine \in ModifierOpeners
              /\ NewLine \in ModifierOpeners
                    => section' = "Rust" /\ doc_data' = Append(doc_data, "'''rust")
              /\ NewLine = "//! '''"
                    => ~re_code_other(NewLine) /\ section' = "Rust"
         /\ section # "Doc" =>
              /\ section' \in {section, "Doc"}
              /\ section' = "Doc" <=> NewLine = "//! '''"]_vars

\* C15 witness: an annotated opener, which both open patterns match, opened a
\* primary block
C15_Witness ==
    /\ source = <<"//! a", "//! '''no_run">>
    /\ re_code_rust(source[2]) /\ re_code_other(source[2])
    /\ section = "Rust"
    /\ doc_data = <<"a", "'''rust">>

\* The line is the prefix, the fence marker and then one or more characters
\* none of which is whitespace, and nothing else
TaggedFence(line) ==
    /\ Len(line) >= 8
    /\ SubSeq(line, 1, 7) = "//! '''"
    /\ \A i \in 8..Len(line) : ~is_whitespace(SubSeq(line, i, i))

\* C16: a doc line read in Doc moves the section to Other if and only if the
\* whole line is the prefix, the fence marker and a tag without whitespace, and
\* it is not a primary opener; the line is then emitted as its text less the
\* prefix. A line with whitespace between marker and tag, or with the marker
\* only later in the line, leaves the section Doc.
C16_OtherFenceWholeLine ==
    [][LineRead /\ section = "Doc" /\ starts_with(NewLine, "//!") =>
         /\ section' = "Other"
               <=> TaggedFence(NewLine) /\ NewLine \notin PrimaryOpeners
         /\ section' = "Other"
               => doc_data' = Append(doc_data, slice_from(NewLine, 4))
         /\ NewLine \in {"//! ''' C", "//! #//! '''C"} => section' = "Doc"]_vars

\* The section each line of the source was read in, found by following the
\* opening and closing lines from the start of the source
RECURSIVE SectionBefore(_, _)
SectionBefore(lines, i) ==
    IF i = 1 THEN "Doc"
    ELSE LET prev == SectionBefore(lines, i - 1)
             l == lines[i - 1]
         IN  IF ~starts_with(l, "//!") THEN prev
             ELSE IF prev = "Doc"
                  THEN IF l \in PrimaryOpeners THEN "Rust"
                       ELSE IF re_code_other(l) THEN "Other" ELSE "Doc"
                  ELSE IF l = "//! '''" THEN "Doc" ELSE prev

\* The positions of the lines that carry the prefix
PrefixedAt(lines) == {i \in 1..Len(lines) : starts_with(lines[i], "//!")}

\* The positions of the hidden lines: read in a primary block, starting `//! # `
HiddenAt(lines) ==
    {i \in PrefixedAt(lines) :
        SectionBefore(lines, i) = "Rust" /\ starts_with(lines[i], "//! # ")}

---------------------------------------------------------------------------
(* Properties of the license value and of the order of substitution *)

\* The template text process_template works on holds the license placeholder
\* once the crate name has been dealt with
LicensePlaceholderMet ==
    /\ template_read
    /\ template_in.kind = "Text"
    /\ contains(replace(trim_template(template_in.text), "{{crate}}", crate_info.name),
                "{{license}}")

\* C18: on every path through generate_readme the license is dereferenced, for
\* the footer or for the placeholder, only when one is configured: no run ends
\* in the unwrap of an absent license, a run that needs the absent license ends
\* in a returned error, and a run that succeeds without a license has neither
\* footer nor substitution.
C18_LicenseDereference ==
    /\ result.kind # "Panic"
    /\ pc = "render" /\ add_license => crate_info.license.some
    /\ pc = "done" /\ cargo.found /\ ~cargo.license.some =>
          /\ add_license => result = Err(ErrNoLicense)
          /\ ~add_license /\ LicensePlaceholderMet
                => result = Err(ErrLicensePlaceholder)
          /\ result.kind = "Ok" =>
                /\ ~add_license /\ ~LicensePlaceholderMet
                /\ readme \in {Body, prepend_title(Body, crate_info.name)}

\* C18 witness: the template asked for a license that is not configured, and
\* the run ended in the returned error
C18_Witness ==
    /\ pc = "done"
    /\ cargo.found /\ ~cargo.license.some
    /\ ~add_license
    /\ template_in = [kind |-> "Text", text |-> "{{readme}}{{license}}"]
    /\ template_read
    /\ result = Err(ErrLicensePlaceholder)

\* The text t with b put in place of each body placeholder, read from left to
\* right starting at position i; what was put in is not read again
RECURSIVE Splice(_, _, _)
Splice(t, b, i) ==
    LET n == Len("{{readme}}")
    IN  IF i > Len(t) THEN ""
        ELSE IF i + n - 1 <= Len(t) /\ SubSeq(t, i, i + n - 1) = "{{readme}}"
             THEN b \o Splice(t, b, i + n)
             ELSE SubSeq(t, i, i) \o Splice(t, b, i + 1)

\* The number of body placeholders in t
BodyPlaceholders(t) ==
    LET n == Len("{{readme}}")
    IN  Cardinality({i \in 1..Len(t) :
            i + n - 1 <= Len(t) /\ SubSeq(t, i, i + n - 1) = "{{readme}}"})

\* C19: the merger substitutes the crate name, then the license, then the body,
\* each in one pass that does not read what it has put in. The decorated body
\* is therefore inserted verbatim, placeholder tokens inside it included, and
\* a successful merge holds one copy of it for each body placeholder of the
\* template as it is after the crate and license steps.
C19_BodyVerbatim ==
    MergerRan /\ result.kind = "Ok" =>
        LET t0 == trim_template(template_in.text)
            t1 == IF add_title /\ ~contains(t0, "{{crate}}") THEN t0
                  ELSE replace(t0, "{{crate}}", crate_info.name)
            t2 == IF contains(t1, "{{license}}")
                  THEN replace(t1, "{{license}}", crate_info.license.val)
                  ELSE t1
            k  == BodyPlaceholders(template)
        IN  /\ template = t2
            /\ contains(readme, Body)
            /\ result.val = Splice(template, readme, 1)
            /\ k >= 1
            /\ Len(result.val) = Len(template) + k * Len(readme) - k * Len("{{readme}}")

\* C19 witness: the body holds the three placeholder tokens and came out as
\* written, twice, with the name of the crate being `readme`
C19_Witness ==
    /\ MergerRan
    /\ ~add_title /\ ~add_license
    /\ crate_info.name = "readme"
    /\ template_in.text = "{{readme}} {{readme}}\n"
    /\ Body = "{{crate}}{{license}}{{readme}}"
    /\ result = Ok("{{crate}}{{license}}{{readme}} {{crate}}{{license}}{{readme}}")

=============================================================================
